---- MODULE Spec2Model ----
(***************************************************************************)
(* A model of paper-daily: the aggregator and SQLite store of app.py, the  *)
(* JSON export of scripts/fetch_papers.py, and the adapters of fetcher.py  *)
(* (HuggingFace feed with arXiv category enrichment, Crossref venues).     *)
(***************************************************************************)
EXTENDS Integers, Sequences, FiniteSets, TLC

\* Longest arXiv answer and longest HuggingFace feed, in entries.
MaxArxiv == 2
MaxHf == 1

\* Days kept by the export's dates index (dates[:30]).
KeepDays == 30

\* Paper identifiers the upstreams hand out, and the days of the clock.
Ids == {"a1", "a2"}
Dates == {1, 2}

SeqsUpTo(S, n) == UNION {[1..k -> S] : k \in 0..n}

\* An upstream answer seen by the aggregator: the request failed (ok = FALSE)
\* or it delivered the items.
Failed == [ok |-> FALSE, items |-> <<>>]
Answers(n) == {Failed} \cup {[ok |-> TRUE, items |-> s] : s \in SeqsUpTo(Ids, n)}
ArxivResponses == Answers(MaxArxiv)
HfResponses == Answers(MaxHf)

VARIABLES
    store,       \* rows of table papers
    today,       \* datetime.now() as a day number
    op,          \* the operation that ran last
    lastArxiv,   \* the arXiv answer of the last aggregation
    lastHf,      \* the HuggingFace answer of the last aggregation
    papers,      \* the batch the last aggregation built
    raised,      \* whether the last operation ended in an exception
    count,       \* the value do_fetch returned last
    newly,       \* rows absent before the last do_fetch and present after it
    dataDir,     \* the days that have a <day>.json file in data/
    repeat       \* the last do_fetch saw the upstream answers of the one before

appVars == <<store, today, op, lastArxiv, lastHf, papers, raised, count, newly,
             dataDir, repeat>>

----------------------------------------------------------------------------
\* fetcher.py as the aggregator sees it

\* fetch_arxiv_papers: a network or parse error propagates to the caller.
FetchArxivPapers(resp) ==
    IF resp.ok
    THEN [raised |-> FALSE,
          val |-> [i \in 1..Len(resp.items) |->
                      [arxiv_id |-> resp.items[i], source |-> "arxiv"]]]
    ELSE [raised |-> TRUE, val |-> <<>>]

\* fetch_hf_daily_papers: every error is caught inside and [] is returned.
FetchHfDailyPapers(resp) ==
    IF resp.ok
    THEN [raised |-> FALSE,
          val |-> [i \in 1..Len(resp.items) |->
                      [arxiv_id |-> resp.items[i], source |-> "huggingface"]]]
    ELSE [raised |-> FALSE, val |-> <<>>]

----------------------------------------------------------------------------
\* app.py

\* do_fetch with "papers = hf" instead of "papers.extend(hf)".
DoFetchPapersOverwrite(ar, hf) ==
    LET a == FetchArxivPapers(ar)
        h == FetchHfDailyPapers(hf)
    IN  [raised |-> FALSE, papers |-> IF h.raised THEN <<>> ELSE h.val]

\* The two try/except blocks of do_fetch.
DoFetchPapers(ar, hf) ==
    LET a  == FetchArxivPapers(ar)
        p1 == IF a.raised THEN <<>> ELSE a.val
        h  == FetchHfDailyPapers(hf)
        p2 == IF h.raised THEN p1 ELSE p1 \o h.val
    IN  [raised |-> FALSE, papers |-> p2]

\* A table without the PRIMARY KEY: no insert ever conflicts.
NoPrimaryKey(st, id) == FALSE

\* arxiv_id TEXT PRIMARY KEY: an insert conflicts with a row of the same id.
PrimaryKeyConflict(st, id) == \E r \in st : r.arxiv_id = id

NewRow(p, date) ==
    [arxiv_id |-> p.arxiv_id, source |-> p.source, fetched_date |-> date, starred |-> 0]

\* INSERT OR REPLACE: the conflicting row is deleted and the new one stored.
InsertOrReplace(st, p, date) ==
    {r \in st : r.arxiv_id # p.arxiv_id} \cup {NewRow(p, date)}

\* INSERT OR IGNORE INTO papers (...) VALUES (...)
InsertOrIgnore(st, p, date) ==
    IF PrimaryKeyConflict(st, p.arxiv_id) THEN st ELSE st \cup {NewRow(p, date)}

\* The insert loop of do_fetch: count is incremented after every execute.
RECURSIVE StoreLoop(_, _, _, _)
StoreLoop(st, ps, date, n) ==
    IF ps = <<>> THEN [store |-> st, count |-> n]
    ELSE StoreLoop(InsertOrIgnore(st, Head(ps), date), Tail(ps), date, n + 1)

StoredIds(st) == {r.arxiv_id : r \in st}

\* do_fetch(date)
DoFetch(ar, hf, date) ==
    LET agg == DoFetchPapers(ar, hf)
        res == StoreLoop(store, agg.papers, date, 0)
    IN  /\ raised' = agg.raised
        /\ store' = IF agg.raised THEN store ELSE res.store
        /\ count' = IF agg.raised THEN count ELSE res.count
        /\ op' = "do_fetch"
        /\ UNCHANGED <<today, dataDir>>

\* What the run just made is remembered for the properties: the rows it added.
Observed == newly' = Cardinality(StoredIds(store') \ StoredIds(store))

\* The upstream answers of a run and the batch built from them, remembered.
Snapshot(ar, hf, batch, fetch) ==
    /\ lastArxiv' = ar
    /\ lastHf' = hf
    /\ papers' = batch
    /\ repeat' = (fetch /\ op = "do_fetch" /\ ar = lastArxiv /\ hf = lastHf)

\* POST /api/fetch
TriggerFetch ==
    \E ar \in ArxivResponses, hf \in HfResponses :
        /\ DoFetch(ar, hf, today)
        /\ Observed
        /\ UNCHANGED <<lastArxiv, lastHf, papers, repeat>>

\* auto_fetch_if_needed, run at every start of the server
AutoFetchIfNeeded ==
    /\ {r \in store : r.fetched_date = today} = {}
    /\ \E ar \in ArxivResponses, hf \in HfResponses :
        /\ DoFetch(ar, hf, today)
        /\ Observed
        /\ UNCHANGED <<lastArxiv, lastHf, papers, repeat>>

\* POST /api/star/<paper_id>
ToggleStar ==
    \E id \in Ids :
        /\ store' = {IF r.arxiv_id = id
                     THEN [r EXCEPT !.starred = IF r.starred = 1 THEN 0 ELSE 1]
                     ELSE r : r \in store}
        /\ op' = "toggle_star"
        /\ raised' = FALSE
        /\ UNCHANGED <<today, lastArxiv, lastHf, papers, count, newly, dataDir, repeat>>

----------------------------------------------------------------------------
\* scripts/fetch_papers.py

\* The two try/except blocks of main.
MainPapers(ar, hf) ==
    LET a  == FetchArxivPapers(ar)
        p1 == IF a.raised THEN <<>> ELSE a.val
        h  == FetchHfDailyPapers(hf)
        p2 == IF h.raised THEN p1 ELSE p1 \o h.val
    IN  [raised |-> FALSE, papers |-> p2]

\* sorted(..., reverse=True)[:30] of the days that have a file
RECURSIVE SortedDesc(_)
SortedDesc(S) ==
    IF S = {} THEN <<>>
    ELSE LET m == CHOOSE x \in S : \A y \in S : y <= x
         IN  <<m>> \o SortedDesc(S \ {m})

KeptDays(S) ==
    LET d == SortedDesc(S)
    IN  {d[i] : i \in 1..(IF Len(d) < KeepDays THEN Len(d) ELSE KeepDays)}

\* main: aggregate, write today's file, drop the files past the 30 newest
Main ==
    \E ar \in ArxivResponses, hf \in HfResponses :
        LET agg == MainPapers(ar, hf)
        IN  /\ Snapshot(ar, hf, agg.papers, FALSE)
            /\ raised' = agg.raised
            /\ dataDir' = IF agg.raised THEN dataDir ELSE KeptDays(dataDir \cup {today})
            /\ op' = "main"
            /\ UNCHANGED <<store, today, count, newly>>

\* fetch_daily.py, the cron entry: init_db(); do_fetch()
FetchDaily ==
    \E ar \in ArxivResponses, hf \in HfResponses :
        /\ DoFetch(ar, hf, today)
        /\ Snapshot(ar, hf, DoFetchPapers(ar, hf).papers, TRUE)
        /\ UNCHANGED newly

\* the calendar day changes
Tick ==
    /\ today + 1 \in Dates
    /\ today' = today + 1
    /\ UNCHANGED <<store, op, lastArxiv, lastHf, papers, raised, count, newly, dataDir,
                   repeat>>

----------------------------------------------------------------------------
\* fetcher.py: the HuggingFace adapter and its category enrichment.
\* Strings are sequences of characters.

\* Longest HuggingFace feed the adapter run is given, in items.
MaxFeed == 2

Trending == <<"t", "r", "e", "n", "d", "i", "n", "g">>
CsPrefix == <<"c", "s", ".">>
CsAI == <<"c", "s", ".", "A", "I">>
CsHC == <<"c", "s", ".", "H", "C">>
MathCO == <<"m", "a", "t", "h", ".", "C", "O">>
AbsSep == <<"/", "a", "b", "s", "/">>

\* The "id" of a feed item's paper: two arXiv ids, and a missing or empty one.
FeedIds == {<<"1">>, <<"2">>, <<>>}
HfFeeds == {Failed} \cup {[ok |-> TRUE, items |-> f] : f \in SeqsUpTo(FeedIds, MaxFeed)}

\* <entry> elements of an arXiv answer: the text of <id> (has_id = FALSE when
\* the element is missing) and the terms of the <category> elements.
EntryIdTexts == {<<"x">> \o AbsSep \o <<"1", "v", "1">>,
                 <<"x">> \o AbsSep \o <<"1", "v", "2">>,
                 <<"x">> \o AbsSep \o <<"2", "v", "1">>}
EntryTerms == {<<>>, <<CsAI, CsHC>>, <<CsHC, MathCO, CsHC, CsAI>>}
Entries ==
    {[has_id |-> TRUE, id_text |-> t, terms |-> c] : t \in EntryIdTexts, c \in EntryTerms}
        \cup {[has_id |-> FALSE, id_text |-> <<>>, terms |-> <<CsAI>>]}

\* What the batched lookup can meet: no answer (network error, timeout), an
\* answer that is not XML, or a feed of at most max_results entries.
Lookups(n) ==
    {[kind |-> k, entries |-> <<>>] : k \in {"timeout", "unparsable"}}
        \cup {[kind |-> "xml", entries |-> e] : e \in SeqsUpTo(Entries, n)}

VARIABLES
    hfPc,        \* where fetch_hf_daily_papers stands
    hfFeed,      \* the answer of the daily_papers endpoint
    hfPapers,    \* papers, as built from the feed
    hfLookup,    \* the answer of the batched arXiv lookup
    hfIdx,       \* the next <entry> the enricher parses
    catMap,      \* cat_map
    hfFailed,    \* the enricher's except branch was taken
    hfResult     \* what fetch_hf_daily_papers returned

hfVars == <<hfPc, hfFeed, hfPapers, hfLookup, hfIdx, catMap, hfFailed, hfResult>>

StartsWith(s, pre) == Len(s) >= Len(pre) /\ SubSeq(s, 1, Len(pre)) = pre

\* s.split(sep): the pieces between the occurrences of sep, found left to right
RECURSIVE Split(_, _)
Split(s, sep) ==
    LET at == {i \in 1..(Len(s) - Len(sep) + 1) : SubSeq(s, i, i + Len(sep) - 1) = sep}
    IN  IF at = {} THEN <<s>>
        ELSE LET i == CHOOSE k \in at : \A m \in at : k <= m
             IN  <<SubSeq(s, 1, i - 1)>> \o Split(SubSeq(s, i + Len(sep), Len(s)), sep)

\* id_text.split("/abs/")[-1].split("v")[0]
BareId(id_text) ==
    LET a == Split(id_text, AbsSep) IN Split(a[Len(a)], <<"v">>)[1]

\* [c.get("term") for c in ... if c.get("term", "").startswith("cs.")]
CsTerms(terms) == SelectSeq(terms, LAMBDA t : StartsWith(t, CsPrefix))

\* list(dict.fromkeys(xs))
RECURSIVE DictFromKeys(_)
DictFromKeys(xs) ==
    IF xs = <<>> THEN <<>>
    ELSE LET r == DictFromKeys(SubSeq(xs, 1, Len(xs) - 1))
             x == xs[Len(xs)]
         IN  IF \E i \in 1..Len(r) : r[i] = x THEN r ELSE Append(r, x)

\* the merge without the dict.fromkeys
MergeKeepingRepeats(real_cats) == <<Trending>> \o real_cats

\* list(dict.fromkeys(["trending"] + real_cats))
MergeCategories(real_cats) == DictFromKeys(<<Trending>> \o real_cats)

\* The feed loop: items without an id are skipped, the rest tagged trending.
BuildHfPapers(items) ==
    LET kept == SelectSeq(items, LAMBDA aid : aid # <<>>)
    IN  [i \in 1..Len(kept) |->
            [arxiv_id |-> kept[i], categories |-> <<Trending>>, source |-> "huggingface"]]

\* an enricher without its except clause: the error reaches the except of
\* fetch_hf_daily_papers, which returns []
OnEnrichErrorUncaught(ps) == <<>>

\* except Exception: print the warning; return papers
OnEnrichError(ps) == ps

\* cat_map.get(p["arxiv_id"], [])
CatMapGet(m, aid) == IF aid \in DOMAIN m THEN m[aid] ELSE <<>>

\* the urlopen and json.loads of fetch_hf_daily_papers, and its feed loop
HfFetchFeed ==
    /\ hfPc = "idle"
    /\ \E feed \in HfFeeds :
        LET built == IF feed.ok THEN BuildHfPapers(feed.items) ELSE <<>>
        IN  /\ hfFeed' = feed
            /\ hfPapers' = built
            /\ IF built # <<>>
               THEN /\ hfPc' = "enrich_request"
                    /\ UNCHANGED hfResult
               ELSE /\ hfPc' = "done"
                    /\ hfResult' = <<>>
    /\ UNCHANGED <<hfLookup, hfIdx, catMap, hfFailed>>

\* _enrich_hf_categories: the request and ET.fromstring
EnrichRequest ==
    /\ hfPc = "enrich_request"
    /\ \E look \in Lookups(Len(hfPapers)) :
        /\ hfLookup' = look
        /\ IF look.kind = "xml"
           THEN /\ hfPc' = "enrich_parse"
                /\ hfIdx' = 1
                /\ UNCHANGED <<hfFailed, hfResult>>
           ELSE /\ hfPc' = "done"
                /\ hfFailed' = TRUE
                /\ hfResult' = OnEnrichError(hfPapers)
                /\ UNCHANGED hfIdx
    /\ UNCHANGED <<hfFeed, hfPapers, catMap>>

\* one pass of the loop that builds cat_map; entry.find("atom:id") is None
\* for an entry without <id>, and .text then raises
EnrichParseEntry ==
    /\ hfPc = "enrich_parse"
    /\ hfIdx <= Len(hfLookup.entries)
    /\ LET e == hfLookup.entries[hfIdx]
       IN  IF e.has_id
           THEN LET aid == BareId(e.id_text)
                IN  /\ catMap' = [k \in DOMAIN catMap \cup {aid} |->
                                     IF k = aid THEN CsTerms(e.terms) ELSE catMap[k]]
                    /\ hfIdx' = hfIdx + 1
                    /\ UNCHANGED <<hfPc, hfFailed, hfResult>>
           ELSE /\ hfPc' = "done"
                /\ hfFailed' = TRUE
                /\ hfResult' = OnEnrichError(hfPapers)
                /\ UNCHANGED <<hfIdx, catMap>>
    /\ UNCHANGED <<hfFeed, hfPapers, hfLookup>>

\* the merge loop, and the returns of the enricher and of the adapter
EnrichMerge ==
    /\ hfPc = "enrich_parse"
    /\ hfIdx > Len(hfLookup.entries)
    /\ hfPapers' = [i \in 1..Len(hfPapers) |->
                       [hfPapers[i] EXCEPT !.categories =
                           MergeCategories(CatMapGet(catMap, hfPapers[i].arxiv_id))]]
    /\ hfResult' = hfPapers'
    /\ hfPc' = "done"
    /\ UNCHANGED <<hfFeed, hfLookup, hfIdx, catMap, hfFailed>>

----------------------------------------------------------------------------
\* fetcher.py: the Crossref venue adapter

\* Longest Crossref answer, in items.
MaxItems == 2

\* range(40, 35, -1): the UIST editions tried, and title[:30] of the fallback id
EditionFrom == 40
EditionStop == 35
TitleKeyLen == 30

ChiTag == <<"C", "H", "I">>
UistTag == <<"U", "I", "S", "T">>

\* VENUES, in the order of the dict: each tag with its title variants. A title
\* is named by its venue and the edition number it embeds (0: none).
VENUES ==
    << [tag |-> ChiTag, titles |-> <<[venue |-> "CHI", edition |-> 0]>>],
       [tag |-> UistTag,
        titles |-> [i \in 1..(EditionFrom - EditionStop) |->
                       [venue |-> "UIST", edition |-> EditionFrom - i + 1]]] >>

LongTitle(last) == [i \in 1..TitleKeyLen |-> "a"] \o <<last>>
Doi1 == <<"1", "0", ".", "1">>

\* Items of a Crossref answer: title is item["title"] (<<>>: no title), doi is
\* item["DOI"] (<<>>: none), date_parts is published.date-parts[0].
CrossrefItems ==
    { [title |-> <<<<"T">>>>, doi |-> Doi1, date_parts |-> <<2024, 3, 5>>],
      [title |-> <<LongTitle("x")>>, doi |-> <<>>, date_parts |-> <<2024>>],
      [title |-> <<LongTitle("y")>>, doi |-> <<>>, date_parts |-> <<2024, 3>>],
      [title |-> <<>>, doi |-> Doi1, date_parts |-> <<>>] }

\* What one Crossref query can meet: an error, or a list of items.
CrossrefAnswers == {Failed} \cup {[ok |-> TRUE, items |-> s] : s \in SeqsUpTo(CrossrefItems, MaxItems)}

VARIABLES
    vPc,         \* where fetch_venue_papers stands
    vVenue,      \* the venue of the outer loop, as an index of VENUES
    vVariant,    \* the title variant tried next, as an index of its titles
    allPapers,   \* all_papers
    queried,     \* the queries made so far: venue, variant, outcome, papers
    warned,      \* the venues reported "[WARN] no papers found"
    vRaised,     \* fetch_venue_papers ended in an exception
    vResult      \* what fetch_venue_papers returned

venueVars == <<vPc, vVenue, vVariant, allPapers, queried, warned, vRaised, vResult>>

DigitChars == <<"0", "1", "2", "3", "4", "5", "6", "7", "8", "9">>

\* str(n) for n >= 0
RECURSIVE Str(_)
Str(n) == IF n < 10 THEN <<DigitChars[n + 1]>> ELSE Str(n \div 10) \o <<DigitChars[(n % 10) + 1]>>

\* s.zfill(2)
ZFill2(s) == IF Len(s) >= 2 THEN s ELSE [i \in 1..(2 - Len(s)) |-> "0"] \o s

\* "-".join(xs)
RECURSIVE JoinDash(_)
JoinDash(xs) ==
    IF xs = <<>> THEN <<>>
    ELSE IF Len(xs) = 1 THEN xs[1]
    ELSE xs[1] \o <<"-">> \o JoinDash(Tail(xs))

\* the date of an item: "-".join(str(p).zfill(2) for p in parts), or ""
PubDate(parts) ==
    IF parts # <<>> THEN JoinDash([i \in 1..Len(parts) |-> ZFill2(Str(parts[i]))]) ELSE <<>>

\* f"doi-{doi}" if doi else f"cr-{title[:30]}"
CrossrefId(doi, title) ==
    IF doi # <<>> THEN <<"d", "o", "i", "-">> \o doi
    ELSE <<"c", "r", "-">> \o SubSeq(title, 1, IF Len(title) < TitleKeyLen THEN Len(title) ELSE TitleKeyLen)

\* the item loop of _fetch_crossref_venue: items without a title are skipped
FetchCrossrefVenue(items, tag) ==
    LET kept == SelectSeq(items, LAMBDA it : it.title # <<>>)
    IN  [i \in 1..Len(kept) |->
            [arxiv_id |-> CrossrefId(kept[i].doi, kept[i].title[1]),
             title |-> kept[i].title[1],
             categories |-> <<tag, CsHC>>,
             published |-> PubDate(kept[i].date_parts),
             source |-> "crossref"]]

\* the first lines of fetch_venue_papers: all_papers = [], the first venue
VenueStart ==
    /\ vPc = "idle"
    /\ vPc' = "sweep"
    /\ vVenue' = 1
    /\ vVariant' = 1
    /\ allPapers' = <<>>
    /\ UNCHANGED <<queried, warned, vRaised, vResult>>

\* after a query that raised or returned nothing: the next title of the venue
AfterEmpty(v, k) == [venue |-> v, variant |-> k + 1]

\* a loop without the break: the next variant is queried after a hit
AfterFoundNoBreak(v, k) == [venue |-> v, variant |-> k + 1]

\* found = True; break; time.sleep(1): on to the next venue
AfterFound(v, k) == [venue |-> v + 1, variant |-> 1]

\* an error in a query ends the sweep
OnQueryErrorAbort(v, k) == [venue |-> Len(VENUES) + 1, variant |-> 1]

\* except Exception: continue
OnQueryError(v, k) == AfterEmpty(v, k)

\* one pass of the inner loop: _fetch_crossref_venue(title, tag, year)
VenueTryTitle ==
    /\ vPc = "sweep"
    /\ vVenue <= Len(VENUES)
    /\ vVariant <= Len(VENUES[vVenue].titles)
    /\ \E ans \in CrossrefAnswers :
        LET got  == IF ans.ok THEN FetchCrossrefVenue(ans.items, VENUES[vVenue].tag) ELSE <<>>
            kind == IF ~ans.ok THEN "error" ELSE IF got # <<>> THEN "found" ELSE "empty"
            to   == IF kind = "error" THEN OnQueryError(vVenue, vVariant)
                    ELSE IF kind = "found" THEN AfterFound(vVenue, vVariant)
                    ELSE AfterEmpty(vVenue, vVariant)
        IN  /\ queried' = Append(queried, [venue |-> vVenue, variant |-> vVariant,
                                           outcome |-> kind, papers |-> got])
            /\ allPapers' = allPapers \o got
            /\ vVenue' = to.venue
            /\ vVariant' = to.variant
    /\ UNCHANGED <<vPc, warned, vRaised, vResult>>

\* if not found: print the warning; time.sleep(1): on to the next venue
VenueNotFound ==
    /\ vPc = "sweep"
    /\ vVenue <= Len(VENUES)
    /\ vVariant > Len(VENUES[vVenue].titles)
    /\ warned' = warned \cup {vVenue}
    /\ vVenue' = vVenue + 1
    /\ vVariant' = 1
    /\ UNCHANGED <<vPc, allPapers, queried, vRaised, vResult>>

\* return all_papers
VenueReturn ==
    /\ vPc = "sweep"
    /\ vVenue > Len(VENUES)
    /\ vPc' = "done"
    /\ vResult' = allPapers
    /\ vRaised' = FALSE
    /\ UNCHANGED <<vVenue, vVariant, allPapers, queried, warned>>

----------------------------------------------------------------------------
vars == <<appVars, hfVars, venueVars>>

\* init_db on an empty papers.db, nothing fetched yet
Init ==
    /\ store = {}
    /\ today = 1
    /\ op = "init_db"
    /\ lastArxiv = Failed
    /\ lastHf = Failed
    /\ papers = <<>>
    /\ raised = FALSE
    /\ count = 0
    /\ newly = 0
    /\ dataDir = {}
    /\ repeat = FALSE
    /\ hfPc = "idle"
    /\ hfFeed = Failed
    /\ hfPapers = <<>>
    /\ hfLookup = [kind |-> "none", entries |-> <<>>]
    /\ hfIdx = 1
    /\ catMap = [k \in {} |-> <<>>]
    /\ hfFailed = FALSE
    /\ hfResult = <<>>
    /\ vPc = "idle"
    /\ vVenue = 1
    /\ vVariant = 1
    /\ allPapers = <<>>
    /\ queried = <<>>
    /\ warned = {}
    /\ vRaised = FALSE
    /\ vResult = <<>>

\* The web application: fetches on demand and at start, stars, days passing.
AppTriggerFetch == TriggerFetch /\ UNCHANGED <<hfVars, venueVars>>
AppAutoFetch == AutoFetchIfNeeded /\ UNCHANGED <<hfVars, venueVars>>
AppToggleStar == ToggleStar /\ UNCHANGED <<hfVars, venueVars>>
AppTick == Tick /\ UNCHANGED <<hfVars, venueVars>>

Next ==
    \/ AppTriggerFetch
    \/ AppAutoFetch
    \/ AppToggleStar
    \/ AppTick

Spec == Init /\ [][Next]_vars

\* The two cron entries run on one day: fetch_daily.py and fetch_papers.py.
CronFetchDaily == FetchDaily /\ UNCHANGED <<hfVars, venueVars>>
CronMain == Main /\ UNCHANGED <<hfVars, venueVars>>

NextCron ==
    \/ CronFetchDaily
    \/ CronMain

SpecCron == Init /\ [][NextCron]_vars

\* One call of fetch_hf_daily_papers.
HfStepFeed == HfFetchFeed /\ UNCHANGED <<appVars, venueVars>>
HfStepRequest == EnrichRequest /\ UNCHANGED <<appVars, venueVars>>
HfStepParse == EnrichParseEntry /\ UNCHANGED <<appVars, venueVars>>
HfStepMerge == EnrichMerge /\ UNCHANGED <<appVars, venueVars>>

NextHf ==
    \/ HfStepFeed
    \/ HfStepRequest
    \/ HfStepParse
    \/ HfStepMerge

SpecHf == Init /\ [][NextHf]_vars

\* One call of fetch_venue_papers.
VenueStepStart == VenueStart /\ UNCHANGED <<appVars, hfVars>>
VenueStepTry == VenueTryTitle /\ UNCHANGED <<appVars, hfVars>>
VenueStepNotFound == VenueNotFound /\ UNCHANGED <<appVars, hfVars>>
VenueStepReturn == VenueReturn /\ UNCHANGED <<appVars, hfVars>>

NextVenue ==
    \/ VenueStepStart
    \/ VenueStepTry
    \/ VenueStepNotFound
    \/ VenueStepReturn

SpecVenue == Init /\ [][NextVenue]_vars

----------------------------------------------------------------------------
\* Properties of the aggregator and the store

\* The full batch of each source that answered, arXiv's first.
BatchOfSucceeded(ar, hf) ==
    (IF ar.ok THEN FetchArxivPapers(ar).val ELSE <<>>)
        \o (IF hf.ok THEN FetchHfDailyPapers(hf).val ELSE <<>>)

\* C1: whichever of the two sources fail, do_fetch and main end without an
\* exception and the batch they ingest is the full batch of arXiv (if it
\* answered) followed by the full batch of HuggingFace (if it answered); it is
\* empty when both fail.
C1_PartialFailureIsolation ==
    op \in {"do_fetch", "main"} =>
        /\ raised = FALSE
        /\ papers = BatchOfSucceeded(lastArxiv, lastHf)
        /\ (~lastArxiv.ok /\ ~lastHf.ok => papers = <<>>)

C1_Witness_OnlyHfAnswers ==
    /\ op = "do_fetch"
    /\ ~lastArxiv.ok
    /\ lastHf.ok
    /\ Len(papers) = MaxHf
    /\ raised = FALSE

NoDuplicateIds == \A r1, r2 \in store : r1.arxiv_id = r2.arxiv_id => r1 = r2

\* C2: after any sequence of do_fetch runs no two stored rows share an
\* identifier, and a run that sees the upstream answers of the run before it
\* leaves the stored rows as they were.
C2_IdempotentReingestion ==
    /\ []NoDuplicateIds
    /\ [][(op = "do_fetch" /\ op' = "do_fetch"
             /\ lastArxiv' = lastArxiv /\ lastHf' = lastHf) => store' = store]_vars

C2_Witness_SecondRunWithCollision ==
    /\ repeat
    /\ op = "do_fetch"
    /\ \E i \in 1..Len(lastArxiv.items), j \in 1..Len(lastHf.items) :
            lastArxiv.items[i] = lastHf.items[j]
    /\ Cardinality(store) = Cardinality(Ids)

\* C3: the value do_fetch returns is the number of rows that were absent
\* before the run and present after it.
C3_CountIsNewlyStored == op = "do_fetch" => count = newly

\* C10: a do_fetch leaves every row that is already stored exactly as it is
\* (starred, fetched_date, source), so a star survives re-ingestion.
C10_IngestionKeepsStoredRows ==
    [][op' = "do_fetch" => \A r \in store : r \in store']_vars

C10_Witness_StarSurvivesRefetch ==
    /\ op = "do_fetch"
    /\ today = 2
    /\ count = 1
    /\ newly = 0
    /\ \E r \in store : store = {r} /\ r.starred = 1 /\ r.fetched_date = 1

----------------------------------------------------------------------------
\* Properties of the HuggingFace adapter

NoRepeats(xs) == \A i, j \in 1..Len(xs) : xs[i] = xs[j] => i = j

FirstAt(xs, x) == CHOOSE i \in 1..Len(xs) : xs[i] = x /\ \A j \in 1..(i - 1) : xs[j] # x

\* out lists the elements of xs once each, in the order of their first occurrence
FirstOccurrences(out, xs) ==
    /\ NoRepeats(out)
    /\ {out[i] : i \in 1..Len(out)} = {xs[i] : i \in 1..Len(xs)}
    /\ \A i, j \in 1..Len(out) : i < j => FirstAt(xs, out[i]) < FirstAt(xs, out[j])

\* the looked-up entries whose id, version suffix stripped, is aid
Matching(aid) ==
    {j \in 1..Len(hfLookup.entries) : BareId(hfLookup.entries[j].id_text) = aid}

EnrichmentSucceeded == hfPc = "done" /\ hfLookup.kind = "xml" /\ ~hfFailed

FeedRecords ==
    LET ids == SelectSeq(hfFeed.items, LAMBDA aid : Len(aid) > 0)
    IN  [i \in 1..Len(ids) |->
            [arxiv_id |-> ids[i], categories |-> <<Trending>>, source |-> "huggingface"]]

\* C5: when the batched lookup fails (no answer, an answer that does not
\* parse, a malformed entry), fetch_hf_daily_papers returns every record of
\* the feed, in order, each with categories [trending] and nothing else changed.
C5_EnrichmentFailureKeepsRecords ==
    (hfPc = "done" /\ hfFailed) => hfResult = FeedRecords

C5_Witness_MalformedSecondEntry ==
    /\ hfPc = "done"
    /\ hfFailed
    /\ hfLookup.kind = "xml"
    /\ DOMAIN catMap # {}
    /\ Len(hfResult) = MaxFeed
    /\ \E i \in 1..Len(hfResult) : hfResult[i].arxiv_id \in DOMAIN catMap

----------------------------------------------------------------------------
\* Properties of the Crossref venue adapter

QueriesOf(v) == SelectSeq(queried, LAMBDA q : q.venue = v)

RECURSIVE Emitted(_)
Emitted(log) == IF log = <<>> THEN <<>> ELSE Head(log).papers \o Emitted(Tail(log))

\* C6: the title variants of a venue are queried in their configured order up
\* to the first one that returns a record; the venue's records are that
\* variant's results and no later variant is queried.
C6_VenueFallbackStopsAtFirstHit ==
    /\ \A v \in 1..Len(VENUES) :
          LET Q == QueriesOf(v)
          IN  /\ \A i \in 1..Len(Q) : Q[i].variant = i
              /\ \A i \in 1..(Len(Q) - 1) : Q[i].papers = <<>>
              /\ (vPc = "done" /\ Len(Q) < Len(VENUES[v].titles)) => Q[Len(Q)].papers # <<>>
    /\ allPapers = Emitted(queried)
    /\ vPc = "done" => vResult = Emitted(queried)

\* UIST's 40th and 39th edition give nothing, the 38th gives records
C6_Witness_ThirdVariantHits ==
    /\ vPc = "done"
    /\ LET Q == QueriesOf(2)
       IN  /\ Len(Q) = 3
           /\ VENUES[2].titles[3].edition = 38
           /\ Q[1].outcome = "error"
           /\ Q[2].outcome = "empty"
           /\ Len(Q[3].papers) = MaxItems
           /\ vResult = Q[3].papers

Succeeded(v) == \E i \in 1..Len(queried) : queried[i].venue = v /\ queried[i].papers # <<>>

RECURSIVE VenueResults(_)
VenueResults(v) ==
    IF v > Len(VENUES) THEN <<>>
    ELSE (IF Succeeded(v)
          THEN LET Q == QueriesOf(v) IN Q[Len(Q)].papers
          ELSE <<>>) \o VenueResults(v + 1)

\* C7: a venue whose every variant raises or returns nothing contributes no
\* record and does not stop the sweep: every venue is queried, the function
\* returns without raising, and the result is the concatenation in venue
\* order of the results of the venues that succeeded.
C7_FailedVenueDoesNotAbortSweep ==
    vPc = "done" =>
        /\ ~vRaised
        /\ \A v \in 1..Len(VENUES) :
              /\ QueriesOf(v) # <<>>
              /\ ~Succeeded(v) => (Len(QueriesOf(v)) = Len(VENUES[v].titles) /\ v \in warned)
              /\ Succeeded(v) => v \notin warned
        /\ vResult = VenueResults(1)

C7_Witness_FirstVenueFails ==
    /\ vPc = "done"
    /\ ~Succeeded(1)
    /\ QueriesOf(1)[1].outcome = "error"
    /\ Succeeded(2)
    /\ vResult # <<>>

IsDigit(c) == \E i \in 1..Len(DigitChars) : DigitChars[i] = c

\* YYYY-MM-DD
IsIsoDate(d) ==
    /\ Len(d) = 10
    /\ d[5] = "-"
    /\ d[8] = "-"
    /\ \A i \in {1, 2, 3, 4, 6, 7, 9, 10} : IsDigit(d[i])

\* C8: the published field of every record is a full YYYY-MM-DD string or
\* empty, also for Crossref items dated by a year or a year and a month only.
C8_PublishedIsFullDateOrEmpty ==
    \A i \in 1..Len(queried) : \A j \in 1..Len(queried[i].papers) :
        LET d == queried[i].papers[j].published
        IN  d = <<>> \/ IsIsoDate(d)

\* C9: in the batch of one adapter call every identifier is non-empty and no
\* two records share one.
C9_IdsUniqueWithinBatch ==
    \A i \in 1..Len(queried) :
        LET b == queried[i].papers
        IN  /\ \A j \in 1..Len(b) : b[j].arxiv_id # <<>>
            /\ \A j, k \in 1..Len(b) : b[j].arxiv_id = b[k].arxiv_id => j = k

====
